---- MODULE Spec2Model ----
(***************************************************************************)
(* Model of static/script.js: the voice-or-text query controller.          *)
(*                                                                         *)
(* The page runs on one event loop, so every handler, and each part of     *)
(* sendQueryToServer that runs without suspending, is one atomic action.   *)
(* Text is a sequence of one-character strings, so that trim() and the     *)
(* newline replacement are computed and not assumed.  The speech engine    *)
(* (annyang) is an external library: start() makes isListening() true,     *)
(* abort() makes it false, and it delivers fragments only while listening. *)
(***************************************************************************)
EXTENDS Integers, Sequences, FiniteSets

(* ------------------------------ bounds --------------------------------- *)

\* what a run may create in all: submissions (calls of sendQueryToServer),
\* timers (calls of setTimeout) and empty-query error entries
MaxCreated == 3

\* clock ticks that make up one inactivity delay
TicksPerDelay == 1

(* ----------------------------- constants ------------------------------- *)

\* script.js:15
silenceDelay == 3000

TickStep == silenceDelay \div TicksPerDelay

\* what the speech engine may hand to the '*query' command
FragmentTexts == { <<"a">>, <<" ", "b", " ">> }

\* what the user may type into the field
TypedTexts == { <<" ">>, <<"a">> }

\* the `response` strings of a well-formed success body
ResponseTexts == { <<"h", "\n", "i">> }

\* the JSON payloads of a non-success status
ErrorPayloads == { <<"o", "o", "p", "s">> }

\* script.js:117 and :133
EmptyQueryError == << "Error: Please enter a query before sending." >>

\* script.js:104
GenericError == << "An error occurred while processing your query. Please try again later." >>

(* ------------------------------- state --------------------------------- *)

VARIABLES
    field,            \* queryField.value
    transcript,       \* children of messagesContainer, in document order
    requests,         \* one record per call of sendQueryToServer
    fetchCount,       \* number of fetch('/query') calls issued
    timers,           \* one record per setTimeout call; its index is the timer id
    inactivityTimer,  \* the variable of script.js:14 (0: undefined)
    listening,        \* annyang.isListening()
    micActive,        \* the voice button's img has class mic-active
    sinceFragment,    \* ms since the last fragment, saturating at silenceDelay
    lastFragment,     \* the text of the last fragment
    voicePair         \* what followed the last voice click made from Idle

vars == << field, transcript, requests, fetchCount, timers, inactivityTimer,
           listening, micActive, sinceFragment, lastFragment, voicePair >>

(* ------------------------------ helpers -------------------------------- *)

Min(a, b) == IF a < b THEN a ELSE b

Max(a, b) == IF a < b THEN b ELSE a

IsSpace(c) == c = " " \/ c = "\n"

RECURSIVE TrimLeft(_)
TrimLeft(s) ==
    IF s # <<>> /\ IsSpace(Head(s)) THEN TrimLeft(Tail(s)) ELSE s

RECURSIVE TrimRight(_)
TrimRight(s) ==
    IF s # <<>> /\ IsSpace(s[Len(s)]) THEN TrimRight(SubSeq(s, 1, Len(s) - 1)) ELSE s

\* String.prototype.trim
Trim(s) == TrimRight(TrimLeft(s))

\* result.response.replace(/\n/g, "<br>")
RECURSIVE ReplaceNewlines(_)
ReplaceNewlines(s) ==
    IF s = <<>> THEN <<>>
    ELSE << (IF Head(s) = "\n" THEN "<br>" ELSE Head(s)) >> \o ReplaceNewlines(Tail(s))

\* "Error: " + JSON.stringify(errorResult, null, 2), for the body {"error": p}
ErrorText(p) == << "Error: ", "{\n  \"error\": \"" >> \o p \o << "\"\n}" >>

\* a child of messagesContainer; req is the submission that created it (0: none)
Entry(k, r, t) == [kind |-> k, req |-> r, text |-> t]

\* the removal as a bug would have it: document.querySelector('.loading-spinner')
\* finds the first spinner of the container, whichever submission made it
RemoveSpinner_first(t, r) ==
    LET at == { i \in 1..Len(t) : t[i].kind = "spinner" }
    IN  IF at = {} THEN t
        ELSE LET i == CHOOSE j \in at : \A k \in at : j <= k
             IN  SubSeq(t, 1, i - 1) \o SubSeq(t, i + 1, Len(t))

\* loadingSpinner.remove(): the spinner element of submission r leaves the container
RemoveSpinner(t, r) == SelectSeq(t, LAMBDA e : ~(e.kind = "spinner" /\ e.req = r))

Pending == { i \in 1..Len(timers) : timers[i].state = "pending" }

Count(t, k, r) == Len(SelectSeq(t, LAMBDA e : e.kind = k /\ e.req = r))

LocalErrors == Count(transcript, "error", 0)

\* the histories are kept finite: no handler creates more than MaxCreated things
Created == Len(requests) + Len(timers) + LocalErrors

(* ------------------------------- Init ---------------------------------- *)

Init ==
    /\ field = <<>>
    /\ transcript = <<>>
    /\ requests = <<>>
    /\ fetchCount = 0
    /\ timers = <<>>
    /\ inactivityTimer = 0
    /\ listening = FALSE
    /\ micActive = FALSE
    /\ sinceFragment = 0
    /\ lastFragment = <<>>
    /\ voicePair = "none"

(* ------------------ sendQueryToServer, up to its first await ----------- *)

\* the submission as a bug would have it: line 63 is missing, the field keeps its text
sendQueryToServer_keepsField(query, origin) ==
    /\ requests' = Append(requests, [query |-> query, origin |-> origin,
                                     outcome |-> "pending"])
    /\ Created < MaxCreated
    /\ transcript' = transcript \o << Entry("query", Len(requests) + 1, query),
                                      Entry("spinner", Len(requests) + 1, <<>>) >>
    /\ field' = field
    /\ fetchCount' = fetchCount + 1

\* script.js:52-75: the query entry, the spinner, the cleared field and the fetch
sendQueryToServer(query, origin) ==
    /\ requests' = Append(requests, [query |-> query, origin |-> origin,
                                     outcome |-> "pending"])
    /\ Created < MaxCreated
    /\ transcript' = transcript \o << Entry("query", Len(requests) + 1, query),
                                      Entry("spinner", Len(requests) + 1, <<>>) >>
    /\ field' = <<>>
    /\ fetchCount' = fetchCount + 1

(* --------------------------- speech fragments -------------------------- *)

\* clearTimeout as a bug would have it: the timer is left pending
clearTimeout_noop(ts, id) == ts

\* clearTimeout(id): a pending timer with that id is cancelled; anything else is a no-op
clearTimeout(ts, id) ==
    [i \in 1..Len(ts) |->
        IF i = id /\ ts[i].state = "pending" THEN [state |-> "cancelled", remaining |-> 0]
        ELSE ts[i]]

\* setTimeout(callback, delay): a new pending timer; its id is its index
setTimeout(ts, delay) == Append(ts, [state |-> "pending", remaining |-> delay])

\* commands['*query'] as a bug would have it: the prior timer is not cleared
commandQuery_noClear(query) ==
    /\ listening
    /\ Created < MaxCreated
    /\ field' = query
    /\ timers' = setTimeout(timers, silenceDelay)
    /\ inactivityTimer' = Len(timers) + 1
    /\ sinceFragment' = 0
    /\ lastFragment' = query
    /\ voicePair' = "none"
    /\ UNCHANGED << transcript, requests, fetchCount, listening, micActive >>

\* script.js:19-33: commands['*query']
commandQuery(query) ==
    /\ listening
    /\ Created < MaxCreated
    /\ field' = query
    /\ timers' = setTimeout(clearTimeout(timers, inactivityTimer), silenceDelay)
    /\ inactivityTimer' = Len(timers) + 1
    /\ sinceFragment' = 0
    /\ lastFragment' = query
    /\ voicePair' = "none"
    /\ UNCHANGED << transcript, requests, fetchCount, listening, micActive >>

\* time passes while a timer is pending and none is due
Tick ==
    /\ Pending # {}
    /\ \A i \in Pending : timers[i].remaining > 0
    /\ timers' = [i \in 1..Len(timers) |->
                    IF i \in Pending
                    THEN [timers[i] EXCEPT !.remaining = Max(@ - TickStep, 0)]
                    ELSE timers[i]]
    /\ sinceFragment' = Min(sinceFragment + TickStep, silenceDelay)
    /\ UNCHANGED << field, transcript, requests, fetchCount, inactivityTimer,
                    listening, micActive, lastFragment, voicePair >>

\* the timer's callback as a bug would have it: the field is submitted untrimmed
timerCallback_untrimmed ==
    IF Trim(field) # <<>>
    THEN sendQueryToServer(field, "timer")
    ELSE UNCHANGED << field, transcript, requests, fetchCount >>

\* the timer's callback as a bug would have it: an empty field is reported, as
\* Send and Enter report it
timerCallback_reports ==
    IF Trim(field) # <<>>
    THEN sendQueryToServer(Trim(field), "timer")
    ELSE /\ UNCHANGED << field, requests, fetchCount >>
         /\ transcript' = Append(transcript, Entry("error", 0, EmptyQueryError))
         /\ Created < MaxCreated

\* the timer's callback as a bug would have it: it submits the fragment that
\* armed it (the `query` of its closure), whatever the field holds by then
timerCallback_submitsFragment ==
    IF Trim(lastFragment) # <<>>
    THEN sendQueryToServer(Trim(lastFragment), "timer")
    ELSE UNCHANGED << field, transcript, requests, fetchCount >>

\* script.js:27-32: the timer's callback
timerCallback ==
    IF Trim(field) # <<>>
    THEN sendQueryToServer(Trim(field), "timer")
    ELSE UNCHANGED << field, transcript, requests, fetchCount >>

\* a pending timer that is due runs its callback, once
TimerFire(i) ==
    /\ i \in Pending
    /\ timers[i].remaining = 0
    /\ timers' = [timers EXCEPT ![i].state = "fired"]
    /\ timerCallback
    /\ UNCHANGED << inactivityTimer, listening, micActive, sinceFragment,
                    lastFragment, voicePair >>

(* ----------------------------- voice button ---------------------------- *)

\* the voice button as a bug would have it: stopping also clears the timer
voiceButtonClick_clearsTimer ==
    /\ IF listening
       THEN /\ listening' = FALSE /\ micActive' = FALSE
            /\ timers' = clearTimeout(timers, inactivityTimer)
       ELSE /\ listening' = TRUE /\ micActive' = TRUE
            /\ timers' = timers
    /\ voicePair' = IF ~listening THEN "clean"
                    ELSE IF voicePair = "clean" THEN "closed" ELSE "none"
    /\ UNCHANGED << field, transcript, requests, fetchCount,
                    inactivityTimer, sinceFragment, lastFragment >>

\* script.js:40-48
voiceButtonClick ==
    /\ IF listening
       THEN listening' = FALSE /\ micActive' = FALSE
       ELSE listening' = TRUE /\ micActive' = TRUE
    /\ voicePair' = IF ~listening THEN "clean"
                    ELSE IF voicePair = "clean" THEN "closed" ELSE "none"
    /\ UNCHANGED << field, transcript, requests, fetchCount, timers,
                    inactivityTimer, sinceFragment, lastFragment >>

(* ------------------------- typing, Send and Enter ---------------------- *)

\* the user edits the field (the element of script.js:10)
TypeText(t) ==
    /\ t # field
    /\ field' = t
    /\ UNCHANGED << transcript, requests, fetchCount, timers, inactivityTimer,
                    listening, micActive, sinceFragment, lastFragment, voicePair >>

\* script.js:115-119 and 131-135: the empty-query error entry
reportEmptyQuery ==
    /\ UNCHANGED << field, requests, fetchCount >>
    /\ transcript' = Append(transcript, Entry("error", 0, EmptyQueryError))
    /\ Created < MaxCreated

\* Send and Enter as a bug would have them: the field is tested untrimmed
submitOrReport_untrimmed(origin) ==
    IF field = <<>>
    THEN reportEmptyQuery
    ELSE sendQueryToServer(field, origin)

\* script.js:112-122 and 128-138: what Send and Enter do
submitOrReport(origin) ==
    IF Trim(field) = <<>>
    THEN reportEmptyQuery
    ELSE sendQueryToServer(Trim(field), origin)

\* script.js:111-123
sendButtonClick ==
    /\ submitOrReport("manual")
    /\ UNCHANGED << timers, inactivityTimer, listening, micActive, sinceFragment,
                    lastFragment, voicePair >>

\* the keydown handler as a bug would have it: event.shiftKey is not looked at
queryKeydown_ignoresShift(key, shiftKey) ==
    /\ IF key = "Enter"
       THEN submitOrReport("manual")
       ELSE UNCHANGED << field, transcript, requests, fetchCount >>
    /\ UNCHANGED << timers, inactivityTimer, listening, micActive, sinceFragment,
                    lastFragment, voicePair >>

\* script.js:126-142
queryKeydown(key, shiftKey) ==
    /\ IF key = "Enter" /\ ~shiftKey
       THEN submitOrReport("manual")
       ELSE UNCHANGED << field, transcript, requests, fetchCount >>
    /\ UNCHANGED << timers, inactivityTimer, listening, micActive, sinceFragment,
                    lastFragment, voicePair >>

(* ------------------ sendQueryToServer, after its awaits ---------------- *)
(* Between `await fetch(...)` and `await response.json()` the function     *)
(* only reads response.ok and calls response.json(): nothing another       *)
(* handler can see changes there, so the two awaits are one step here, and *)
(* what the step is given is the pair they yield together.                 *)

\* what the two awaits may yield: fetch rejects; or a status arrives and the
\* body is not JSON, or is JSON with or without a `response` string (success
\* status), or is a JSON payload (non-success status)
Replies ==
    { [ok |-> TRUE, body |-> "response", text |-> t] : t \in ResponseTexts }
        \cup { [ok |-> FALSE, body |-> "payload", text |-> p] : p \in ErrorPayloads }
        \cup { [ok |-> TRUE, body |-> "noResponse", text |-> <<>>],
               [ok |-> TRUE, body |-> "notJson", text |-> <<>>],
               [ok |-> FALSE, body |-> "notJson", text |-> <<>>],
               [ok |-> FALSE, body |-> "rejected", text |-> <<>>] }

InFlight == { r \in 1..Len(requests) : requests[r].outcome = "pending" }

Finish(r, outcome) == [requests EXCEPT ![r].outcome = outcome]

\* the catch block as a bug would have it: the error is logged and not shown
catchError_silent(t, r) == t

\* script.js:100-107: the catch block's entry
catchError(t, r) == Append(t, Entry("error", r, GenericError))

\* the rendering as a bug would have it: the container's innerHTML is assigned,
\* so the response replaces everything that was there
renderResponse_overwrites(t, r, text) ==
    << Entry("response", r, ReplaceNewlines(text)) >>

\* script.js:79-85: the spinner leaves, the response entry is appended
renderResponse(t, r, text) ==
    Append(RemoveSpinner(t, r), Entry("response", r, ReplaceNewlines(text)))

\* the non-success entry as a bug would have it: the spinner is removed first
renderServerError_removesSpinner(t, r, payload) ==
    Append(RemoveSpinner(t, r), Entry("error", r, ErrorText(payload)))

\* script.js:93-98: the error entry of a non-success status
renderServerError(t, r, payload) == Append(t, Entry("error", r, ErrorText(payload)))

\* lines 88-90 as a bug would have them: abort() without clearing the indicator
stopListening_keepsIndicator ==
    /\ listening' = FALSE
    /\ micActive' = micActive

\* script.js:88-90: annyang.abort() and the indicator cleared
stopListening ==
    /\ listening' = FALSE
    /\ micActive' = FALSE

\* script.js:77-90: the success branch with a body that has a `response` string
successBranch(r, text) ==
    /\ transcript' = renderResponse(transcript, r, text)
    /\ requests' = Finish(r, "response")
    /\ stopListening
    /\ voicePair' = IF voicePair = "clean" THEN "success" ELSE voicePair

\* the success branch as a bug would have it: abort() comes before the line
\* that throws, so a body without a `response` string stops the engine too
responseMissing_aborts(r) ==
    /\ transcript' = catchError(RemoveSpinner(transcript, r), r)
    /\ requests' = Finish(r, "responseMissing")
    /\ stopListening
    /\ UNCHANGED voicePair

\* the success branch as a bug would have it: a body without a `response` string
\* is rendered as the text "undefined" and the branch runs to its end
responseMissing_rendersUndefined(r) ==
    /\ transcript' = renderResponse(transcript, r, << "undefined" >>)
    /\ requests' = Finish(r, "responseMissing")
    /\ stopListening
    /\ UNCHANGED voicePair

\* script.js:77-83, then 100-107: the body has no `response` string, so line 83
\* throws after line 79 removed the spinner, and the catch block runs
responseMissing(r) ==
    /\ transcript' = catchError(RemoveSpinner(transcript, r), r)
    /\ requests' = Finish(r, "responseMissing")
    /\ UNCHANGED << listening, micActive, voicePair >>

\* the non-success branch as a bug would have it: it stops listening too
errorBranch_aborts(r, payload) ==
    /\ transcript' = renderServerError(transcript, r, payload)
    /\ requests' = Finish(r, "serverError")
    /\ stopListening
    /\ UNCHANGED voicePair

\* script.js:92-99: the non-success branch with a JSON body
errorBranch(r, payload) ==
    /\ transcript' = renderServerError(transcript, r, payload)
    /\ requests' = Finish(r, "serverError")
    /\ UNCHANGED << listening, micActive, voicePair >>

\* the catch path as a bug would have it: it stops listening too
catchBranch_aborts(r) ==
    /\ transcript' = catchError(transcript, r)
    /\ requests' = Finish(r, "exception")
    /\ stopListening
    /\ UNCHANGED voicePair

\* script.js:69, 78 or 93, then 100-107: fetch or response.json() rejects
catchBranch(r) ==
    /\ transcript' = catchError(transcript, r)
    /\ requests' = Finish(r, "exception")
    /\ UNCHANGED << listening, micActive, voicePair >>

\* the rest of sendQueryToServer as a bug would have it: a rejected fetch or an
\* unreadable body makes it fetch again, with nothing shown
replyArrives_retries(r, reply) ==
    /\ r \in InFlight
    /\ CASE reply.body = "response" ->
                successBranch(r, reply.text) /\ UNCHANGED fetchCount
         [] reply.body = "noResponse" ->
                responseMissing(r) /\ UNCHANGED fetchCount
         [] reply.body = "payload" ->
                errorBranch(r, reply.text) /\ UNCHANGED fetchCount
         [] OTHER ->
                /\ fetchCount' = fetchCount + 1
                /\ UNCHANGED << transcript, requests, listening, micActive, voicePair >>
    /\ UNCHANGED << field, timers, inactivityTimer, sinceFragment, lastFragment >>

\* script.js:68-107: the rest of sendQueryToServer for submission r
replyArrives(r, reply) ==
    /\ r \in InFlight
    /\ CASE reply.body = "response" -> successBranch(r, reply.text)
         [] reply.body = "noResponse" -> responseMissing(r)
         [] reply.body = "payload" -> errorBranch(r, reply.text)
         [] OTHER -> catchBranch(r)
    /\ UNCHANGED << field, fetchCount, timers, inactivityTimer, sinceFragment, lastFragment >>

(* ---------------------------- specification ---------------------------- *)

\* the keydown events: Enter, Shift+Enter and another key
KeyEvents == { <<"Enter", FALSE>>, <<"Enter", TRUE>>, <<"x", FALSE>> }

Next ==
    \/ \E q \in FragmentTexts : commandQuery(q)
    \/ Tick
    \/ \E i \in 1..Len(timers) : TimerFire(i)
    \/ voiceButtonClick
    \/ \E t \in TypedTexts : TypeText(t)
    \/ sendButtonClick
    \/ \E e \in KeyEvents : queryKeydown(e[1], e[2])
    \/ \E r \in 1..Len(requests) : \E reply \in Replies : replyArrives(r, reply)

Spec == Init /\ [][Next]_vars

(* ------------------------------- claims -------------------------------- *)

\* a step of the Send button's handler or of an Enter keydown without Shift
ManualSubmit == sendButtonClick \/ queryKeydown("Enter", FALSE)

Requests == 1..Len(requests)

Done(r) == requests[r].outcome # "pending"

\* the places of the transcript that hold the response or error entry of submission r
ResultsOf(r) ==
    { i \in 1..Len(transcript) :
        transcript[i].req = r /\ transcript[i].kind \in { "response", "error" } }

Queries(t) == SelectSeq(t, LAMBDA e : e.kind = "query")

Spinners(r) == Count(transcript, "spinner", r)

\* this step made a new submission
Submitted == Len(requests') = Len(requests) + 1

NewRequest == requests'[Len(requests')]

\* in every state, a click/Enter submission has one query entry, and one result
\* entry, after the query entry, exactly when its request has completed
C1_Entries ==
    \A r \in Requests :
        requests[r].origin = "manual" =>
            LET own == SelectSeq(transcript,
                                 LAMBDA e : e.req = r /\ e.kind # "spinner")
            IN  /\ Len(own) = IF Done(r) THEN 2 ELSE 1
                /\ own[1] = Entry("query", r, requests[r].query)
                /\ Done(r) => own[2].kind \in { "response", "error" }

\* a click or Enter on a non-empty trimmed field appends one query entry, with
\* the trimmed text
C1_Step ==
    (Trim(field) # <<>> /\ ManualSubmit) =>
        /\ Submitted
        /\ NewRequest.query = Trim(field)
        /\ Queries(transcript') =
              Append(Queries(transcript), Entry("query", Len(requests'), Trim(field)))

\* C1: every click or Enter (without Shift) on a non-empty trimmed field appends
\* exactly one query entry with the trimmed text, and once its request has
\* completed, on any path, exactly one response-or-error entry of that
\* submission stands after the query entry: never none, never two.
C1_OneQueryOneResult == [](C1_Entries) /\ [][C1_Step]_vars

\* two click/Enter submissions have completed, one with a response and one
\* through the catch block
C1_Witness ==
    \E r1, r2 \in Requests :
        /\ requests[r1].origin = "manual" /\ requests[r1].outcome = "response"
        /\ requests[r2].origin = "manual" /\ requests[r2].outcome = "exception"
        /\ requests[r2].query = <<"b">>

\* C2: every click or Enter (without Shift) on an empty or whitespace-only field
\* issues no request, appends exactly the one entry 'Error: Please enter a query
\* before sending.', no query entry or placeholder, and leaves the field as it is.
C2_EmptyQueryReported ==
    [][(Trim(field) = <<>> /\ ManualSubmit) =>
          /\ transcript' = Append(transcript, Entry("error", 0, EmptyQueryError))
          /\ field' = field
          /\ requests' = requests
          /\ fetchCount' = fetchCount]_vars

\* the error entry was appended for a whitespace-only field, which is still there,
\* and no request was ever issued
C2_Witness ==
    /\ field = <<" ">>
    /\ fetchCount = 0
    /\ requests = <<>>
    /\ transcript = << Entry("error", 0, EmptyQueryError) >>

\* C3 as stated: whenever the timer expires after the silence, exactly one
\* submission fires, and it carries the final fragment's trimmed text.
C3_Original ==
    [][\A i \in 1..Len(timers) :
          TimerFire(i) => (Submitted /\ NewRequest.query = Trim(lastFragment))]_vars

\* C3, amended: after one or more fragments and a silence of the inactivity
\* delay the timer fires once, and no timer is left pending; it makes exactly one
\* submission, of the field's trimmed text at expiry, when that text is non-empty,
\* and none when it is empty; the text is the final fragment's trimmed text when
\* the field still holds the final fragment.
C3_TimerSubmitsField ==
    [][\A i \in 1..Len(timers) :
          TimerFire(i) =>
              /\ i = inactivityTimer
              /\ sinceFragment = silenceDelay
              /\ Pending' = {}
              /\ Len(requests') <= Len(requests) + 1
              /\ Trim(field) # <<>> =>
                    (Submitted /\ NewRequest.query = Trim(field)
                               /\ NewRequest.origin = "timer")
              /\ Trim(field) = <<>> => requests' = requests
              /\ (field = lastFragment /\ Trim(field) # <<>>) =>
                    NewRequest.query = Trim(lastFragment)]_vars

\* two fragments arrived, the first one's timer was cancelled, the second one's
\* fired and submitted the second fragment's trimmed text
C3_Witness ==
    /\ Len(timers) = 2
    /\ timers[1].state = "cancelled"
    /\ timers[2].state = "fired"
    /\ lastFragment = <<" ", "b", " ">>
    /\ \E r \in Requests : requests[r].origin = "timer" /\ requests[r].query = <<"b">>

\* C4: a fragment cancels the timer that is pending; a cancelled timer stays
\* cancelled, so it never fires; and a submission made by a timer is made only
\* when the full delay has passed since the most recent fragment.
C4_Debounce ==
    [][/\ \A q \in FragmentTexts :
              commandQuery(q) => \A i \in Pending : timers'[i].state = "cancelled"
       /\ \A i \in 1..Len(timers) :
              timers[i].state = "cancelled" => timers'[i].state = "cancelled"
       /\ (Submitted /\ NewRequest.origin = "timer") =>
              sinceFragment = silenceDelay]_vars

\* a timer was cancelled by a new fragment, and a later timer fired after its
\* full delay and submitted
C4_Witness ==
    /\ \E i \in 1..Len(timers) : timers[i].state = "cancelled"
    /\ \E i \in 1..Len(timers) : timers[i].state = "fired"
    /\ \E r \in Requests : requests[r].origin = "timer"

\* C5: in every reachable state at most one inactivity timer is pending.
C5_OneTimerPending == Cardinality(Pending) <= 1

\* a timer is pending after an earlier one was cancelled, with a request in flight
C5_Witness ==
    /\ Cardinality(Pending) = 1
    /\ \E i \in 1..Len(timers) : timers[i].state = "cancelled"
    /\ InFlight # {}

\* C6: every submission has exactly one placeholder in the transcript while its
\* request is in flight, and none once the request has completed with a response
\* or an error; so no placeholder remains when nothing is in flight.
C6_PlaceholderRemoved ==
    \A r \in Requests : Spinners(r) = IF Done(r) THEN 0 ELSE 1

\* the outcomes that end with an error entry
ErrorOutcomes == { "serverError", "exception", "responseMissing" }

\* the error entry of submission r stands after its placeholder
SpinnerBeforeError(r) ==
    \A i \in ResultsOf(r) :
        \E j \in 1..(i - 1) : transcript[j] = Entry("spinner", r, <<>>)

\* C7 as stated: whenever a submission has ended with an error entry, its
\* placeholder is still in the transcript.
C7_Original ==
    \A r \in Requests :
        requests[r].outcome \in ErrorOutcomes => Spinners(r) = 1

\* C7, amended: a submission that ended with an error entry on the non-success
\* status path, or in the catch block because fetch or response.json() rejected,
\* still has its placeholder, before the error entry; one that ended in the catch
\* block because a parsed success body had no `response` string has lost it, as
\* line 79 ran before line 83 threw.
C7_PlaceholderOnErrorPaths ==
    \A r \in Requests :
        /\ requests[r].outcome \in { "serverError", "exception" } =>
              (Spinners(r) = 1 /\ SpinnerBeforeError(r))
        /\ requests[r].outcome = "responseMissing" =>
              (Spinners(r) = 0 /\ Cardinality(ResultsOf(r)) = 1)

\* one submission ended on the non-success path and one in the catch block,
\* and both placeholders are still there
C7_Witness ==
    \E r1, r2 \in Requests :
        /\ requests[r1].outcome = "serverError"
        /\ requests[r2].outcome = "exception"
        /\ Spinners(r1) = 1 /\ Spinners(r2) = 1
        /\ Len(transcript) = 6

\* this step completed a request with the given outcome
Completed(r, outcomes) ==
    /\ requests[r].outcome = "pending"
    /\ requests'[r].outcome \in outcomes

\* C8 as stated: listening stops only on a voice-button click, or when a
\* successful response to a timer-originated submission is handled.
C8_Original ==
    [][(listening /\ ~listening') =>
          \/ voiceButtonClick
          \/ \E r \in Requests :
                requests[r].origin = "timer" /\ Completed(r, { "response" })]_vars

\* C8, amended: listening stops only on a voice-button click made while
\* listening, or when a successful response is handled, whether its submission
\* came from the timer or from click/Enter; every successful response stops it,
\* and a failed response (non-success status or exception) leaves it as it is.
C8_ListeningStops ==
    [][/\ (listening /\ ~listening') =>
              \/ voiceButtonClick
              \/ \E r \in Requests : Completed(r, { "response" })
       /\ \A r \in Requests :
              /\ Completed(r, { "response" }) => ~listening'
              /\ Completed(r, ErrorOutcomes) => listening' = listening]_vars

\* the engine was started by a voice click, and the successful response of a
\* click/Enter submission stopped it
C8_Witness ==
    /\ voicePair = "success"
    /\ ~listening
    /\ \A r \in Requests : requests[r].origin = "manual"
    /\ \E r \in Requests : requests[r].outcome = "response"

\* C9 as stated: the second of two voice clicks with no fragment between them,
\* the first made from Idle, leaves the engine idle and the indicator cleared.
C9_Original ==
    [][(voiceButtonClick /\ voicePair \in { "clean", "success" }) =>
          (~listening' /\ ~micActive')]_vars

\* C9, amended: the second of two voice clicks with no fragment and no
\* successful response between them, the first made from Idle, leaves the engine
\* idle and the indicator cleared, whatever submissions, failed responses and
\* timer expiries come between the two clicks.
C9_ToggleTwice ==
    [][(voiceButtonClick /\ voicePair = "clean") =>
          (~listening' /\ ~micActive')]_vars

\* the pair of clicks is complete, the engine is idle, and a submission made on
\* the way has failed
C9_Witness ==
    /\ voicePair = "closed"
    /\ ~listening
    /\ ~micActive
    /\ \E r \in Requests : requests[r].outcome \in ErrorOutcomes

\* C10: in every reachable state the mic-active indicator is set if and only if
\* the engine is listening.
C10_IndicatorMirrorsEngine == micActive <=> listening

\* the engine was started from Idle and listens with the indicator set, and a
\* successful response has been handled
C10_Witness ==
    /\ listening
    /\ micActive
    /\ voicePair = "clean"
    /\ \E r \in Requests : requests[r].outcome = "response"

\* a click or Enter made after some request has failed still submits, with one
\* more fetch; a step that makes no submission makes no fetch
C11_Step ==
    /\ (Len(requests') = Len(requests)) => fetchCount' = fetchCount
    /\ (Trim(field) # <<>>
            /\ (\E r \in Requests : requests[r].outcome \in ErrorOutcomes)
            /\ ManualSubmit) =>
          (Submitted /\ fetchCount' = fetchCount + 1)

\* C11: no request is retried: in every state, as many POST /query requests have
\* been issued as submissions were made, whatever their outcomes, and after a
\* failure a click or Enter on a non-empty field still makes a submission
C11_NoRetry == [](fetchCount = Len(requests)) /\ [][C11_Step]_vars

\* a submission was made after another one's error entry was appended
C11_Witness ==
    \E i \in 1..Len(transcript) : \E j \in 1..Len(transcript) :
        /\ i < j
        /\ transcript[i].kind = "error" /\ transcript[i].req > 0
        /\ transcript[j].kind = "query" /\ transcript[j].req > transcript[i].req
        /\ fetchCount = 2

\* a successful response of submission r removes the spinner of r, leaves the
\* spinner of every other submission in flight, and puts its entry last
C12_Step ==
    \A r \in Requests :
        Completed(r, { "response" }) =>
            /\ Count(transcript', "spinner", r) = 0
            /\ \A o \in Requests \ { r } :
                  requests[o].outcome = "pending" =>
                      /\ Count(transcript, "spinner", o) = 1
                      /\ Count(transcript', "spinner", o) = 1
            /\ Len(transcript') > 0
            /\ transcript'[Len(transcript')].kind = "response"
            /\ transcript'[Len(transcript')].req = r

\* C12: submissions are not serialized: with several requests in flight, each
\* successful response removes only the placeholder of its own submission and
\* is appended when it arrives, which may be before the response of an earlier
\* query
C12_Concurrent == [][C12_Step]_vars

\* two requests were in flight at once, made by a timer and by a click or Enter,
\* and the later one's response arrived and was appended first
C12_Witness ==
    \E i \in 1..Len(transcript) : \E j \in 1..Len(transcript) :
        /\ i < j
        /\ transcript[i].kind = "response" /\ transcript[j].kind = "response"
        /\ transcript[i].req > transcript[j].req
        /\ requests[transcript[i].req].origin # requests[transcript[j].req].origin

\* the query, response and error entries of a transcript, in order
Kept(t) == SelectSeq(t, LAMBDA e : e.kind # "spinner")

\* C13: the query, response and error entries are append-only: in every step
\* their sequence after the step extends their sequence before it, so that
\* nothing but a loading placeholder is ever removed, moved or changed
C13_AppendOnly ==
    [][transcript' # transcript =>
          LET a == Kept(transcript)
              b == Kept(transcript')
          IN  Len(a) <= Len(b) /\ SubSeq(b, 1, Len(a)) = a]_vars

\* a placeholder was removed and four kept entries stand in the transcript
C13_Witness ==
    /\ Len(Kept(transcript)) >= 4
    /\ \E r \in Requests :
          requests[r].outcome = "response" /\ Count(transcript, "spinner", r) = 0

\* a step that makes a submission appends its query entry and then its spinner,
\* empties the field and issues the fetch, the request being still unanswered;
\* a step that completes a request leaves the field as it was
C14_Step ==
    /\ Submitted =>
          /\ transcript' = transcript \o
                << Entry("query", Len(requests'), NewRequest.query),
                   Entry("spinner", Len(requests'), <<>>) >>
          /\ field' = <<>>
          /\ fetchCount' = fetchCount + 1
          /\ NewRequest.outcome = "pending"
    /\ \A r \in Requests :
          (requests[r].outcome = "pending" /\ requests'[r].outcome # "pending") =>
              field' = field

\* C14: a submission appends the query entry, then the loading placeholder,
\* clears the field and issues the request in one step, before any response of
\* it is handled; the response or error of a submission never changes the
\* field, so text typed while the request was in flight survives
C14_SubmitThenReply == [][C14_Step]_vars

\* a request has completed, another is in flight, and the field holds text
C14_Witness ==
    /\ Trim(field) # <<>>
    /\ \E r \in Requests : Done(r)
    /\ \E r \in Requests : ~Done(r)

\* C15: when the inactivity timer expires while the trimmed field is empty,
\* nothing happens: no request is issued, no entry of any kind is appended and
\* the field keeps its contents
C15_EmptyExpiry ==
    [][\A i \in 1..Len(timers) :
          (Trim(field) = <<>> /\ TimerFire(i)) =>
              UNCHANGED << transcript, requests, fetchCount, field >>]_vars

\* a timer has fired on a field that was left blank: nothing was submitted and
\* nothing stands in the transcript
C15_Witness ==
    /\ \E i \in 1..Len(timers) : timers[i].state = "fired"
    /\ requests = <<>>
    /\ transcript = <<>>
    /\ field = << " " >>

\* the entry that the outcome `reply` of submission r calls for
C16_Expected(r, reply) ==
    CASE reply.ok /\ reply.body = "response" ->
            Entry("response", r,
                  [i \in 1..Len(reply.text) |->
                      IF reply.text[i] = "\n" THEN "<br>" ELSE reply.text[i]])
      [] ~reply.ok /\ reply.body = "payload" ->
            Entry("error", r, ErrorText(reply.text))
      [] OTHER -> Entry("error", r, GenericError)

\* C16: the outcome decides the one result entry: a success status with a body
\* that holds a response appends the response entry with its text, a
\* non-success status with a JSON body appends the error entry with the
\* serialized payload, a rejected fetch or a malformed body on either status
\* appends the generic error entry, and no outcome appends two entries
C16_OutcomeDecides ==
    [][\A r \in Requests :
          (requests[r].outcome = "pending" /\ requests'[r].outcome # "pending") =>
              /\ Len(SelectSeq(transcript', LAMBDA e :
                        e.req = r /\ e.kind \in { "response", "error" })) = 1
              /\ \A reply \in Replies :
                    replyArrives(r, reply) =>
                        transcript'[Len(transcript')] = C16_Expected(r, reply)]_vars

\* a response entry, a payload error entry and a generic error entry stand in
\* the transcript, each of another submission
C16_Witness ==
    /\ \E i \in 1..Len(transcript) :
          transcript[i].kind = "response" /\ transcript[i].text = << "h", "<br>", "i" >>
    /\ \E i \in 1..Len(transcript) :
          /\ transcript[i].kind = "error"
          /\ transcript[i].req > 0
          /\ requests[transcript[i].req].outcome = "serverError"
    /\ \E i \in 1..Len(transcript) :
          transcript[i] = Entry("error", transcript[i].req, GenericError)

\* C17: a keydown submits or reports the empty query only when the key is Enter
\* and Shift is not held: the handler's run for Shift+Enter and for any other
\* key leaves the transcript, the field, the timers and the requests unchanged
C17_OtherKeys ==
    [][\A e \in KeyEvents \ { << "Enter", FALSE >> } :
          queryKeydown(e[1], e[2]) =>
              UNCHANGED << transcript, field, timers, inactivityTimer,
                           requests, fetchCount >>]_vars

\* a state where Enter would submit: text in the field, a timer pending and a
\* request in flight, none of which Shift+Enter or another key touches
C17_Witness ==
    /\ Trim(field) # <<>>
    /\ Pending # {}
    /\ InFlight # {}
    /\ Created < MaxCreated

\* a pending timer is cancelled by a fragment's step only; a step that changes
\* a timer is no voice click, no click or Enter and no completion of a request
C18_Step ==
    timers' # timers =>
        /\ (\E i \in Pending : timers'[i].state = "cancelled") =>
              \E q \in FragmentTexts : commandQuery(q)
        /\ ~voiceButtonClick
        /\ ~ManualSubmit
        /\ \A r \in Requests :
              ~(requests[r].outcome = "pending" /\ requests'[r].outcome # "pending")

\* C18: a pending inactivity timer is cancelled only by the arrival of a new
\* speech fragment: a voice click that stops listening, a click or Enter
\* submission and the arrival of any response leave it pending, so that it can
\* expire and submit while the engine is idle
C18_OnlyFragmentCancels == [][C18_Step]_vars

\* the engine was stopped by the voice button (no response has succeeded), a
\* click or Enter submission was made and answered, and the timer is still
\* pending, due, with text in the field for it to submit
C18_Witness ==
    /\ ~listening
    /\ Created < MaxCreated
    /\ Trim(field) # <<>>
    /\ \E i \in Pending : timers[i].remaining = 0
    /\ \E r \in Requests : requests[r].origin = "manual" /\ Done(r)
    /\ \A r \in Requests : requests[r].outcome # "response"

\* C19: what a timer expiry submits is the trimmed contents of the field at the
\* expiry, not the fragment: when the field no longer holds the last
\* fragment, the edited text is submitted, or nothing when it trims to empty
C19_FieldAtExpiry ==
    [][\A i \in 1..Len(timers) :
          (field # lastFragment /\ TimerFire(i)) =>
              IF Trim(field) = <<>>
              THEN requests' = requests /\ transcript' = transcript
              ELSE /\ Submitted
                   /\ NewRequest = [query |-> Trim(field), origin |-> "timer",
                                    outcome |-> "pending"]]_vars

\* one fragment arrived, the field was edited, and the timer submitted the
\* edited text, which is not the fragment's
C19_Witness ==
    /\ Len(timers) = 1
    /\ \E r \in Requests :
          /\ requests[r].origin = "timer"
          /\ requests[r].query # Trim(lastFragment)

\* C20: a submission that ends with a non-success status, or with an exception
\* before the success branch has run to its end, leaves the engine and the
\* microphone indicator as they were; the completion of a request changes
\* either of them only when it is a successful response, which clears both
C20_FailureKeepsListening ==
    [][\A r \in Requests :
          (requests[r].outcome = "pending" /\ requests'[r].outcome # "pending") =>
              IF requests'[r].outcome \in ErrorOutcomes
              THEN listening' = listening /\ micActive' = micActive
              ELSE requests'[r].outcome = "response" /\ ~listening' /\ ~micActive']_vars

\* the engine has been listening since before the only fragment, whose
\* timer-made submission ended in the catch block after the success status, and
\* the engine still listens with the indicator lit
C20_Witness ==
    /\ listening /\ micActive
    /\ voicePair = "none"
    /\ Len(timers) = 1
    /\ \E r \in Requests :
          requests[r].origin = "timer" /\ requests[r].outcome = "responseMissing"

====
